---- MODULE Spec2Model ----
(***************************************************************************)
(* Model of the pg_wait_sampling collector (collector.c): the sampler      *)
(* loop pgws_collector_main, the snapshot probe probe_waits, the history   *)
(* ring and the profile hashtable with its usage-based deallocation        *)
(* pgws_entry_dealloc.                                                     *)
(*                                                                         *)
(* Timestamps are in microseconds, as TimestampTz is.  A usage value (a    *)
(* C double) is kept as the exact rational num / 100^exp: the code only    *)
(* ever adds 1.0 to it and multiplies it by 0.99, so every value it takes  *)
(* has this form; IEEE rounding is not modelled.                           *)
(***************************************************************************)
EXTENDS Integers, Sequences, FiniteSets, TLC

(***************************************************************************)
(* Program constants (collector.c:28-32).                                  *)
(***************************************************************************)
USAGE_INIT == 1
USAGE_INCREASE == 1
\* USAGE_DECREASE_FACTOR = 0.99 = USAGE_DECREASE_NUM / USAGE_DECREASE_DEN
USAGE_DECREASE_NUM == 99
USAGE_DECREASE_DEN == 100
USAGE_DEALLOC_PERCENT == 5
USAGE_DEALLOC_MIN_NUM == 10
\* TimestampDifference and millisecs_diff: microseconds per second,
\* milliseconds per second, microseconds per millisecond
USECS_PER_SEC == 1000000
MSECS_PER_SEC == 1000
USECS_PER_MSEC == 1000

(***************************************************************************)
(* Bounds of the model.                                                    *)
(***************************************************************************)
\* ProcGlobal->allProcCount: the number of worker slots scanned by a pass
NumProcs == 2
\* the largest time, in milliseconds, the clock is let run to
MaxTime == 1000
\* the largest number of items ever written to the history ring
MaxWrites == 4
\* the number of reader processes
NumReaders == 2

\* the values a worker slot may show
Pids == {0, 1, 2}
WaitEvents == {0, 1}
QueryIds == {0, 1}

Slots == 0 .. (NumProcs - 1)
Readers == 1 .. NumReaders

Min(a, b) == IF a < b THEN a ELSE b
Max(a, b) == IF a > b THEN a ELSE b

(***************************************************************************)
(* Usage arithmetic: the double  num / USAGE_DECREASE_DEN^exp.             *)
(***************************************************************************)
RECURSIVE DenPow(_)
DenPow(e) == IF e = 0 THEN 1 ELSE USAGE_DECREASE_DEN * DenPow(e - 1)

\* entry->usage = USAGE_INIT
UsageInit == [num |-> USAGE_INIT, exp |-> 0]

\* entry->usage += USAGE_INCREASE
UsageIncrease(u) == [num |-> u.num + USAGE_INCREASE * DenPow(u.exp), exp |-> u.exp]

\* entry->usage *= USAGE_DECREASE_FACTOR
UsageDecay(u) == [num |-> u.num * USAGE_DECREASE_NUM, exp |-> u.exp + 1]

\* the numerator of u over the denominator USAGE_DECREASE_DEN^e, e >= u.exp
UsageAt(u, e) == u.num * DenPow(e - u.exp)

\* l_usage < r_usage
UsageLess(l, r) ==
    LET e == Max(l.exp, r.exp)
    IN  UsageAt(l, e) < UsageAt(r, e)

\* a mutant of entry_cmp: the signs are exchanged
entry_cmp_Descending(l, r) ==
    IF UsageLess(l.usage, r.usage) THEN 1
    ELSE IF UsageLess(r.usage, l.usage) THEN -1
    ELSE 0

\* qsort comparator for sorting into increasing usage order
entry_cmp(l, r) ==
    IF UsageLess(l.usage, r.usage) THEN -1
    ELSE IF UsageLess(r.usage, l.usage) THEN 1
    ELSE 0

(***************************************************************************)
(* pgws_entry_dealloc on a table h (a function key -> entry).  qsort's     *)
(* order among entries that compare equal is unspecified, so the result    *)
(* is a set: one table for every order qsort may produce.                  *)
(***************************************************************************)
\* the scan of lines 86-92: every entry's usage is decayed
DecayAll(h) == [k \in DOMAIN h |-> [h[k] EXCEPT !.usage = UsageDecay(@)]]

\* a mutant of NumVictims: the minimum number of victims is forgotten
NumVictims_PercentOnly(i) ==
    Min((i * USAGE_DEALLOC_PERCENT) \div 100, i)

\* lines 101-102, i being the number of entries
NumVictims(i) ==
    Min(Max(USAGE_DEALLOC_MIN_NUM, (i * USAGE_DEALLOC_PERCENT) \div 100), i)

\* lines 94 and 104-107: the sets of keys entries[0 .. nvictims-1] may hold
\* after qsort(entry_cmp)
VictimSets(d, nvictims) ==
    LET D == DOMAIN d
        NotAfter(k) == {j \in D : entry_cmp(d[j], d[k]) <= 0}
        Before(k) == {j \in D : entry_cmp(d[j], d[k]) < 0}
        must == {k \in D : Cardinality(NotAfter(k)) <= nvictims}
        may == {k \in D \ must : Cardinality(Before(k)) < nvictims}
    IN  {must \cup T : T \in {X \in SUBSET may :
                                 Cardinality(X) = nvictims - Cardinality(must)}}

pgws_entry_dealloc(h) ==
    LET d == DecayAll(h)
        nvictims == NumVictims(Cardinality(DOMAIN h))
    IN  {[k \in (DOMAIN d) \ V |-> d[k]] : V \in VictimSets(d, nvictims)}

(***************************************************************************)
(* State.                                                                  *)
(***************************************************************************)
VARIABLES
    \* the monitored workers: for each PGPROC slot, and for each slot of
    \* pgws_proc_queryids, the values its worker moves through; the
    \* worker changes them at any moment, and an unsynchronized read
    \* returns any of them
    procs, pgws_proc_queryids,
    \* shared structures and their LWLocks
    pgws_history_ring, pgws_profile_hash, pgws_history_lock, pgws_profile_lock,
    \* configuration: the values in effect and the configuration file
    pgwsHistoryBufferSize, pgwsHistoryPeriod, pgwsProfilePeriod,
    pgwsMaxProfileEntries, pgwsWhetherProfilePid, pgwsWhetherProfileQueryId,
    config_file,
    \* the collector process: flags set by signal handlers, its latch,
    \* the position in pgws_collector_main / probe_waits and the locals
    ConfigReloadPending, ShutdownRequestPending, latch, pc, exit_status,
    current_ts, history_ts, profile_ts, history_diff, profile_diff,
    write_history, write_profile, slot, key,
    \* the environment: wall clock (microseconds), postmaster, readers
    now, postmaster_alive, rd,
    \* history variables: every item written to the ring, in order; the
    \* number of qualifying observations of each profile key, in total
    \* and since the key's entry was last deallocated
    written, observed, since

workers == <<procs, pgws_proc_queryids>>
gucs == <<pgwsHistoryBufferSize, pgwsHistoryPeriod, pgwsProfilePeriod,
          pgwsMaxProfileEntries, pgwsWhetherProfilePid, pgwsWhetherProfileQueryId>>
signals == <<ConfigReloadPending, ShutdownRequestPending, latch>>
timers == <<current_ts, history_ts, profile_ts, history_diff, profile_diff>>
flags == <<write_history, write_profile>>
locks == <<pgws_history_lock, pgws_profile_lock>>
history == <<pgws_history_ring, written>>
profile == <<pgws_profile_hash, observed, since>>
vars == <<procs, pgws_proc_queryids, pgws_history_ring, pgws_profile_hash,
          pgws_history_lock, pgws_profile_lock, pgwsHistoryBufferSize,
          pgwsHistoryPeriod, pgwsProfilePeriod, pgwsMaxProfileEntries,
          pgwsWhetherProfilePid, pgwsWhetherProfileQueryId, config_file,
          ConfigReloadPending, ShutdownRequestPending, latch, pc, exit_status,
          current_ts, history_ts, profile_ts, history_diff, profile_diff,
          write_history, write_profile, slot, key, now, postmaster_alive, rd,
          written, observed, since>>

\* no key is pending: a key the probe builds never has wait_event_info = 0
NoKey == [pid |-> 0, wait_event_info |-> 0, queryid |-> 0]
ZeroItem == [pid |-> 0, wait_event_info |-> 0, queryId |-> 0, ts |-> 0]
EmptyTable == [k \in {} |-> 0]
\* an LWLock: held exclusively (by the collector, the only process that
\* takes LW_EXCLUSIVE here) or shared by a set of readers
FreeLock == [exclusive |-> FALSE, shared |-> {}]
IdleReader == [st |-> "idle", plan |-> "none"]

TableSize(h) == Cardinality(DOMAIN h)

(***************************************************************************)
(* probe_waits, one slot after another.  A pass takes no time on the       *)
(* model's clock.                                                          *)
(***************************************************************************)
LockIsFree(l) == ~l.exclusive /\ l.shared = {}

\* a mutant of ProbeAcquireLocks: the history lock is taken first
ProbeAcquireLocks_HistoryFirst ==
    \/ /\ pc = "AcquireProfile"
       /\ IF write_history
          THEN /\ LockIsFree(pgws_history_lock)
               /\ pgws_history_lock' = [pgws_history_lock EXCEPT !.exclusive = TRUE]
          ELSE UNCHANGED pgws_history_lock
       /\ pc' = "AcquireHistory"
       /\ UNCHANGED <<workers, history, profile, pgws_profile_lock, gucs,
                      config_file, signals, exit_status, timers, flags, slot,
                      key, now, postmaster_alive, rd>>
    \/ /\ pc = "AcquireHistory"
       /\ IF write_profile
          THEN /\ LockIsFree(pgws_profile_lock)
               /\ pgws_profile_lock' = [pgws_profile_lock EXCEPT !.exclusive = TRUE]
          ELSE UNCHANGED pgws_profile_lock
       /\ pc' = "Slot"
       /\ slot' = 0
       /\ UNCHANGED <<workers, history, profile, pgws_history_lock, gucs,
                      config_file, signals, exit_status, timers, flags,
                      key, now, postmaster_alive, rd>>

\* a mutant of ProbeAcquireLocks: the locks are taken without waiting for
\* the readers that hold them
ProbeAcquireLocks_NoWait ==
    \/ /\ pc = "AcquireProfile"
       /\ IF write_profile
          THEN pgws_profile_lock' = [pgws_profile_lock EXCEPT !.exclusive = TRUE]
          ELSE UNCHANGED pgws_profile_lock
       /\ pc' = "AcquireHistory"
       /\ UNCHANGED <<workers, history, profile, pgws_history_lock, gucs,
                      config_file, signals, exit_status, timers, flags, slot,
                      key, now, postmaster_alive, rd>>
    \/ /\ pc = "AcquireHistory"
       /\ IF write_history
          THEN pgws_history_lock' = [pgws_history_lock EXCEPT !.exclusive = TRUE]
          ELSE UNCHANGED pgws_history_lock
       /\ pc' = "Slot"
       /\ slot' = 0
       /\ UNCHANGED <<workers, history, profile, pgws_profile_lock, gucs,
                      config_file, signals, exit_status, timers, flags,
                      key, now, postmaster_alive, rd>>

\* a mutant of ProbeAcquireLocks: both locks are taken whatever the flags
ProbeAcquireLocks_Both ==
    \/ /\ pc = "AcquireProfile"
       /\ LockIsFree(pgws_profile_lock)
       /\ pgws_profile_lock' = [pgws_profile_lock EXCEPT !.exclusive = TRUE]
       /\ pc' = "AcquireHistory"
       /\ UNCHANGED <<workers, history, profile, pgws_history_lock, gucs,
                      config_file, signals, exit_status, timers, flags, slot,
                      key, now, postmaster_alive, rd>>
    \/ /\ pc = "AcquireHistory"
       /\ LockIsFree(pgws_history_lock)
       /\ pgws_history_lock' = [pgws_history_lock EXCEPT !.exclusive = TRUE]
       /\ pc' = "Slot"
       /\ slot' = 0
       /\ UNCHANGED <<workers, history, profile, pgws_profile_lock, gucs,
                      config_file, signals, exit_status, timers, flags,
                      key, now, postmaster_alive, rd>>

\* lines 118-121: LWLockAcquire(LW_EXCLUSIVE) of the profile lock, then of
\* the history lock, each only if its structure is to be written
ProbeAcquireLocks ==
    \/ /\ pc = "AcquireProfile"
       /\ IF write_profile
          THEN /\ LockIsFree(pgws_profile_lock)
               /\ pgws_profile_lock' = [pgws_profile_lock EXCEPT !.exclusive = TRUE]
          ELSE UNCHANGED pgws_profile_lock
       /\ pc' = "AcquireHistory"
       /\ UNCHANGED <<workers, history, profile, pgws_history_lock, gucs,
                      config_file, signals, exit_status, timers, flags, slot,
                      key, now, postmaster_alive, rd>>
    \/ /\ pc = "AcquireHistory"
       /\ IF write_history
          THEN /\ LockIsFree(pgws_history_lock)
               /\ pgws_history_lock' = [pgws_history_lock EXCEPT !.exclusive = TRUE]
          ELSE UNCHANGED pgws_history_lock
       /\ pc' = "Slot"
       /\ slot' = 0
       /\ UNCHANGED <<workers, history, profile, pgws_profile_lock, gucs,
                      config_file, signals, exit_status, timers, flags,
                      key, now, postmaster_alive, rd>>

\* a mutant of SkipSlot: only a free slot is skipped
SkipSlot_PidOnly(pid, wait_event_info) == pid = 0

\* lines 157-162: the slot is skipped
SkipSlot(pid, wait_event_info) == pid = 0 \/ wait_event_info = 0

\* a mutant of RingStore: the slot is taken after the index has advanced
RingStore_SlotAfterIncrement(ring, item) ==
    [items |-> [ring.items EXCEPT
                  ![(ring.index + 1) % pgwsHistoryBufferSize] = item],
     index |-> ring.index + 1]

\* lines 167-172: the item is stored at index % size, the index advances
RingStore(ring, item) ==
    [items |-> [ring.items EXCEPT ![ring.index % pgwsHistoryBufferSize] = item],
     index |-> ring.index + 1]

\* a mutant of ProfileKey: pgwsWhetherProfilePid is ignored
ProfileKey_AlwaysPid(pid, wait_event_info, queryId) ==
    [pid |-> pid, wait_event_info |-> wait_event_info, queryid |-> queryId]

\* lines 182-184: the hashtable key
ProfileKey(pid, wait_event_info, queryId) ==
    [pid |-> IF pgwsWhetherProfilePid THEN pid ELSE 0,
     wait_event_info |-> wait_event_info,
     queryid |-> queryId]

\* lines 202-203: a new entry
NewEntry == [counter |-> 1, usage |-> UsageInit]

\* a mutant of UpdateEntry: the counter of an entry found is left alone
UpdateEntry_UsageOnly(entry) ==
    [counter |-> entry.counter, usage |-> UsageIncrease(entry.usage)]

\* lines 207-208: an entry found
UpdateEntry(entry) ==
    [counter |-> entry.counter + 1, usage |-> UsageIncrease(entry.usage)]

\* a mutant of NeedRoom: the loop stops one entry too late
NeedRoom_OffByOne(h) == TableSize(h) > pgwsMaxProfileEntries

\* a mutant of NeedRoom: room is made for every new key
NeedRoom_Always(h) == TableSize(h) >= 0

\* line 195: the condition of the make-space loop
NeedRoom(h) == TableSize(h) >= pgwsMaxProfileEntries

\* the history variables after one more qualifying observation of key k
Counted(f, k) ==
    [j \in (DOMAIN f) \cup {k} |->
        IF j = k THEN (IF k \in DOMAIN f THEN f[k] + 1 ELSE 1) ELSE f[j]]

\* a mutant of ProbeSlot: the fields are read once for the tests of lines
\* 157-162 and once more for the values that are written
ProbeSlot_ReadTwice ==
    /\ pc = "Slot"
    /\ slot < NumProcs
    /\ \E test_wait \in procs[slot], test_pid \in procs[slot],
          proc_wait \in procs[slot], proc_pid \in procs[slot],
          proc_queryid \in pgws_proc_queryids[slot] :
       LET queryId == IF pgwsWhetherProfileQueryId THEN proc_queryid ELSE 0
           wait_event_info == proc_wait.wait_event_info
           pid == proc_pid.pid
           item == [pid |-> pid, wait_event_info |-> wait_event_info,
                    queryId |-> queryId, ts |-> now]
           k == ProfileKey(pid, wait_event_info, queryId)
       IN  IF SkipSlot(test_pid.pid, test_wait.wait_event_info)
           THEN /\ slot' = slot + 1
                /\ UNCHANGED <<history, profile, pc, key>>
           ELSE /\ IF write_history
                   THEN /\ pgws_history_ring.index < MaxWrites
                        /\ pgws_history_ring' = RingStore(pgws_history_ring, item)
                        /\ written' = Append(written, item)
                   ELSE UNCHANGED history
                /\ IF write_profile
                   THEN /\ observed' = Counted(observed, k)
                        /\ since' = Counted(since, k)
                        /\ IF k \in DOMAIN pgws_profile_hash
                           THEN /\ pgws_profile_hash' =
                                     [pgws_profile_hash EXCEPT ![k] = UpdateEntry(@)]
                                /\ slot' = slot + 1
                                /\ UNCHANGED <<pc, key>>
                           ELSE /\ pc' = "MakeRoom"
                                /\ key' = k
                                /\ UNCHANGED <<pgws_profile_hash, slot>>
                   ELSE /\ slot' = slot + 1
                        /\ UNCHANGED <<profile, pc, key>>
    /\ UNCHANGED <<workers, locks, gucs, config_file, signals, exit_status,
                   timers, flags, now, postmaster_alive, rd>>

\* lines 126-211, one iteration of the loop over the slots, up to the
\* make-space loop of a key that is not in the table.  The slot is read
\* without a lock, wait_event_info (line 131) and then pid (line 132):
\* the two reads may see the worker at two different moments.
ProbeSlot ==
    /\ pc = "Slot"
    /\ slot < NumProcs
    /\ \E proc_wait \in procs[slot], proc_pid \in procs[slot],
          proc_queryid \in pgws_proc_queryids[slot] :
       LET queryId == IF pgwsWhetherProfileQueryId THEN proc_queryid ELSE 0
           wait_event_info == proc_wait.wait_event_info
           pid == proc_pid.pid
           item == [pid |-> pid, wait_event_info |-> wait_event_info,
                    queryId |-> queryId, ts |-> now]
           k == ProfileKey(pid, wait_event_info, queryId)
       IN  IF SkipSlot(pid, wait_event_info)
           THEN /\ slot' = slot + 1
                /\ UNCHANGED <<history, profile, pc, key>>
           ELSE /\ IF write_history
                   THEN /\ pgws_history_ring.index < MaxWrites
                        /\ pgws_history_ring' = RingStore(pgws_history_ring, item)
                        /\ written' = Append(written, item)
                   ELSE UNCHANGED history
                /\ IF write_profile
                   THEN /\ observed' = Counted(observed, k)
                        /\ since' = Counted(since, k)
                        /\ IF k \in DOMAIN pgws_profile_hash
                           THEN /\ pgws_profile_hash' =
                                     [pgws_profile_hash EXCEPT ![k] = UpdateEntry(@)]
                                /\ slot' = slot + 1
                                /\ UNCHANGED <<pc, key>>
                           ELSE /\ pc' = "MakeRoom"
                                /\ key' = k
                                /\ UNCHANGED <<pgws_profile_hash, slot>>
                   ELSE /\ slot' = slot + 1
                        /\ UNCHANGED <<profile, pc, key>>
    /\ UNCHANGED <<workers, locks, gucs, config_file, signals, exit_status,
                   timers, flags, now, postmaster_alive, rd>>

\* lines 195-196: one iteration of the make-space loop
ProbeMakeRoom ==
    /\ pc = "MakeRoom"
    /\ NeedRoom(pgws_profile_hash)
    /\ pgws_profile_hash' \in pgws_entry_dealloc(pgws_profile_hash)
    /\ since' = [k \in (DOMAIN pgws_profile_hash') \cup {key} |-> since[k]]
    /\ UNCHANGED <<workers, history, locks, gucs, config_file, signals, pc,
                   exit_status, timers, flags, slot, key, now,
                   postmaster_alive, rd, observed>>

\* lines 198-203: the loop has ended, the key is entered
ProbeInsert ==
    /\ pc = "MakeRoom"
    /\ ~NeedRoom(pgws_profile_hash)
    /\ pgws_profile_hash' =
          [k \in (DOMAIN pgws_profile_hash) \cup {key} |->
              IF k = key THEN NewEntry ELSE pgws_profile_hash[k]]
    /\ pc' = "Slot"
    /\ slot' = slot + 1
    /\ key' = NoKey
    /\ UNCHANGED <<workers, history, locks, gucs, config_file, signals,
                   exit_status, timers, flags, now, postmaster_alive, rd,
                   observed, since>>

\* lines 213-216: the loop over the slots has ended; the history lock is
\* released, then the profile lock
ProbeReleaseLocks ==
    \/ /\ pc = "Slot"
       /\ slot = NumProcs
       /\ IF write_history
          THEN pgws_history_lock' = [pgws_history_lock EXCEPT !.exclusive = FALSE]
          ELSE UNCHANGED pgws_history_lock
       /\ pc' = "ReleaseProfile"
       /\ UNCHANGED <<workers, history, profile, pgws_profile_lock, gucs,
                      config_file, signals, exit_status, timers, flags, slot,
                      key, now, postmaster_alive, rd>>
    \/ /\ pc = "ReleaseProfile"
       /\ IF write_profile
          THEN pgws_profile_lock' = [pgws_profile_lock EXCEPT !.exclusive = FALSE]
          ELSE UNCHANGED pgws_profile_lock
       /\ pc' = "ResetTs"
       /\ UNCHANGED <<workers, history, profile, pgws_history_lock, gucs,
                      config_file, signals, exit_status, timers, flags, slot,
                      key, now, postmaster_alive, rd>>

(***************************************************************************)
(* pgws_collector_main.                                                    *)
(*                                                                         *)
(* history_diff and profile_diff are int64 and are cast to int (lines      *)
(* 325-328).  A non-negative int64 v is the record [hi, lo] with           *)
(* v = hi * 2^31 + lo and 0 <= lo < 2^31; an int is an integer between     *)
(* INT_MIN and INT_MAX.                                                    *)
(***************************************************************************)
INT_MAX == 2147483647
INT_MIN == (-INT_MAX) - 1
Int64(n) == [hi |-> 0, lo |-> n]
\* v >= (int64) n, for an int n
Int64GE(v, n) == v.hi > 0 \/ v.lo >= n
\* (int) v: the low 32 bits of v, bit 31 being the sign
IntCast(v) == IF v.hi % 2 = 0 THEN v.lo ELSE INT_MIN + v.lo
\* a - b in int: a signed overflow is undefined behaviour, and its result
\* is a value that is no integer, with which no arithmetic can be made
IntSubOverflows(a, b) ==
    \/ b < 0 /\ a > INT_MAX + b
    \/ b > 0 /\ a < INT_MIN + b
Undefined == "undefined"
IntSub(a, b) == IF IntSubOverflows(a, b) THEN Undefined ELSE a - b

\* TimestampDifference (the difference tz2 - tz1, never negative, as
\* seconds and microseconds) and lines 228-230
millisecs_diff(tz1, tz2) ==
    LET diff == tz2 - tz1
        secs == IF diff <= 0 THEN 0 ELSE diff \div USECS_PER_SEC
        microsecs == IF diff <= 0 THEN 0 ELSE diff % USECS_PER_SEC
    IN  Int64(secs * MSECS_PER_SEC + microsecs \div USECS_PER_MSEC)

\* line 281: ResetLatch (CHECK_FOR_INTERRUPTS changes nothing modelled)
ResetLatch ==
    /\ pc = "ResetLatch"
    /\ latch' = FALSE
    /\ pc' = "CheckReload"
    /\ UNCHANGED <<workers, history, profile, locks, gucs, config_file,
                   ConfigReloadPending, ShutdownRequestPending, exit_status,
                   timers, flags, slot, key, now, postmaster_alive, rd>>

\* ProcessConfigFile(PGC_SIGHUP): the file's values of the reloadable
\* tunables come into effect; the size of the history ring is fixed
ProcessConfigFile ==
    /\ pgwsHistoryPeriod' = config_file.pgwsHistoryPeriod
    /\ pgwsProfilePeriod' = config_file.pgwsProfilePeriod
    /\ pgwsMaxProfileEntries' = config_file.pgwsMaxProfileEntries
    /\ pgwsWhetherProfilePid' = config_file.pgwsWhetherProfilePid
    /\ pgwsWhetherProfileQueryId' = config_file.pgwsWhetherProfileQueryId
    /\ UNCHANGED pgwsHistoryBufferSize

\* lines 287-291
ProcessConfigReload ==
    /\ pc = "CheckReload"
    /\ IF ConfigReloadPending
       THEN /\ ConfigReloadPending' = FALSE
            /\ ProcessConfigFile
       ELSE UNCHANGED <<ConfigReloadPending, gucs>>
    /\ pc' = "CheckShutdown"
    /\ UNCHANGED <<workers, history, profile, locks, config_file,
                   ShutdownRequestPending, latch, exit_status, timers, flags,
                   slot, key, now, postmaster_alive, rd>>

\* lines 294-295 and 353-354: break and proc_exit(0), or go on
CheckShutdown ==
    /\ pc = "CheckShutdown"
    /\ IF ShutdownRequestPending
       THEN pc' = "Exited" /\ exit_status' = 0
       ELSE pc' = "ReadClock" /\ UNCHANGED exit_status
    /\ UNCHANGED <<workers, history, profile, locks, gucs, config_file,
                   signals, timers, flags, slot, key, now, postmaster_alive, rd>>

\* lines 298-300: the clock is read, the elapsed times are computed
ReadClock ==
    /\ pc = "ReadClock"
    /\ current_ts' = now
    /\ history_diff' = millisecs_diff(history_ts, now)
    /\ profile_diff' = millisecs_diff(profile_ts, now)
    /\ pc' = "Decide"
    /\ UNCHANGED <<workers, history, profile, locks, gucs, config_file,
                   signals, exit_status, history_ts, profile_ts, flags, slot,
                   key, now, postmaster_alive, rd>>

\* a mutant of Decide: the periods are not tested for 0
Decide_PeriodNotTested ==
    /\ pc = "Decide"
    /\ LET wh == Int64GE(history_diff, pgwsHistoryPeriod)
           wp == Int64GE(profile_diff, pgwsProfilePeriod)
       IN  /\ write_history' = wh
           /\ write_profile' = wp
           /\ pc' = IF wh \/ wp THEN "AcquireProfile" ELSE "Wait"
    /\ UNCHANGED <<workers, history, profile, locks, gucs, config_file,
                   signals, exit_status, timers, slot, key, now,
                   postmaster_alive, rd>>

\* a mutant of Decide: the latch is reset after the request flags have
\* been checked
Decide_ThenResetLatch ==
    /\ pc = "Decide"
    /\ LET wh == pgwsHistoryPeriod # 0
                    /\ Int64GE(history_diff, pgwsHistoryPeriod)
           wp == pgwsProfilePeriod # 0
                    /\ Int64GE(profile_diff, pgwsProfilePeriod)
       IN  /\ write_history' = wh
           /\ write_profile' = wp
           /\ pc' = IF wh \/ wp THEN "AcquireProfile" ELSE "Wait"
    /\ latch' = FALSE
    /\ UNCHANGED <<workers, history, profile, locks, gucs, config_file,
                   ConfigReloadPending, ShutdownRequestPending, exit_status,
                   timers, slot, key, now, postmaster_alive, rd>>

\* a mutant of Decide: a stream is sampled only when more than its period
\* has elapsed
Decide_StrictlyLater ==
    /\ pc = "Decide"
    /\ LET wh == pgwsHistoryPeriod # 0
                    /\ Int64GE(history_diff, pgwsHistoryPeriod)
                    /\ history_diff # Int64(pgwsHistoryPeriod)
           wp == pgwsProfilePeriod # 0
                    /\ Int64GE(profile_diff, pgwsProfilePeriod)
                    /\ profile_diff # Int64(pgwsProfilePeriod)
       IN  /\ write_history' = wh
           /\ write_profile' = wp
           /\ pc' = IF wh \/ wp THEN "AcquireProfile" ELSE "Wait"
    /\ UNCHANGED <<workers, history, profile, locks, gucs, config_file,
                   signals, exit_status, timers, slot, key, now,
                   postmaster_alive, rd>>

\* lines 302-309: the decision to probe
Decide ==
    /\ pc = "Decide"
    /\ LET wh == pgwsHistoryPeriod # 0
                    /\ Int64GE(history_diff, pgwsHistoryPeriod)
           wp == pgwsProfilePeriod # 0
                    /\ Int64GE(profile_diff, pgwsProfilePeriod)
       IN  /\ write_history' = wh
           /\ write_profile' = wp
           /\ pc' = IF wh \/ wp THEN "AcquireProfile" ELSE "Wait"
    /\ UNCHANGED <<workers, history, profile, locks, gucs, config_file,
                   signals, exit_status, timers, slot, key, now,
                   postmaster_alive, rd>>

\* a mutant of ResetSampleTimes: a pass of either stream restarts both
ResetSampleTimes_Both ==
    /\ pc = "ResetTs"
    /\ history_ts' = current_ts
    /\ history_diff' = Int64(0)
    /\ profile_ts' = current_ts
    /\ profile_diff' = Int64(0)
    /\ current_ts' = 0
    /\ write_history' = FALSE
    /\ write_profile' = FALSE
    /\ slot' = 0
    /\ pc' = "Wait"
    /\ UNCHANGED <<workers, history, profile, locks, gucs, config_file,
                   signals, exit_status, key, now, postmaster_alive, rd>>

\* lines 311-321, after probe_waits has returned.  The locals current_ts,
\* write_history and write_profile are not read again in this iteration
\* and are cleared.
ResetSampleTimes ==
    /\ pc = "ResetTs"
    /\ history_ts' = IF write_history THEN current_ts ELSE history_ts
    /\ history_diff' = IF write_history THEN Int64(0) ELSE history_diff
    /\ profile_ts' = IF write_profile THEN current_ts ELSE profile_ts
    /\ profile_diff' = IF write_profile THEN Int64(0) ELSE profile_diff
    /\ current_ts' = 0
    /\ write_history' = FALSE
    /\ write_profile' = FALSE
    /\ slot' = 0
    /\ pc' = "Wait"
    /\ UNCHANGED <<workers, history, profile, locks, gucs, config_file,
                   signals, exit_status, key, now, postmaster_alive, rd>>

\* lines 325-328
history_timeout ==
    IF pgwsHistoryPeriod >= IntCast(history_diff)
    THEN IntSub(pgwsHistoryPeriod, IntCast(history_diff)) ELSE 0
profile_timeout ==
    IF pgwsProfilePeriod >= IntCast(profile_diff)
    THEN IntSub(pgwsProfilePeriod, IntCast(profile_diff)) ELSE 0

\* a mutant of actual_timeout: the later of the two deadlines
actual_timeout_Later ==
    IF pgwsProfilePeriod # 0 /\ pgwsHistoryPeriod = 0 THEN profile_timeout
    ELSE IF pgwsHistoryPeriod # 0 /\ pgwsProfilePeriod = 0 THEN history_timeout
    ELSE IF pgwsHistoryPeriod # 0 /\ pgwsProfilePeriod # 0
         THEN Max(history_timeout, profile_timeout)
    ELSE 0

\* lines 330-336
actual_timeout ==
    IF pgwsProfilePeriod # 0 /\ pgwsHistoryPeriod = 0 THEN profile_timeout
    ELSE IF pgwsHistoryPeriod # 0 /\ pgwsProfilePeriod = 0 THEN history_timeout
    ELSE IF pgwsHistoryPeriod # 0 /\ pgwsProfilePeriod # 0
         THEN Min(history_timeout, profile_timeout)
    ELSE 0

\* line 340: whether WL_TIMEOUT is among the wake events
WaitHasTimeout == pgwsHistoryPeriod # 0 \/ pgwsProfilePeriod # 0

\* the wait has returned without postmaster death: the next iteration
\* begins, the locals history_diff and profile_diff are gone
WaitReturns ==
    /\ pc' = "ResetLatch"
    /\ history_diff' = Int64(0)
    /\ profile_diff' = Int64(0)
    /\ UNCHANGED <<workers, history, profile, locks, gucs, config_file,
                   signals, exit_status, current_ts, history_ts, profile_ts,
                   flags, slot, key, postmaster_alive, rd>>

\* lines 338-341: WaitLatch returns when the timeout expires
WaitLatchTimeout ==
    /\ pc = "Wait"
    /\ WaitHasTimeout
    /\ ~latch
    /\ now + actual_timeout * USECS_PER_MSEC <= MaxTime * USECS_PER_MSEC
    /\ now' = now + actual_timeout * USECS_PER_MSEC
    /\ WaitReturns

\* lines 338-341: WaitLatch returns at once when the latch is set
WaitLatchSet ==
    /\ pc = "Wait"
    /\ latch
    /\ now' = now
    /\ WaitReturns

\* lines 338-341: WaitLatch returns late, the process having been
\* scheduled Lateness milliseconds after the timeout expired
Lateness == {100}
WaitLatchLate ==
    /\ pc = "Wait"
    /\ WaitHasTimeout
    /\ ~latch
    /\ \E late \in Lateness :
         /\ now + (actual_timeout + late) * USECS_PER_MSEC
                <= MaxTime * USECS_PER_MSEC
         /\ now' = now + (actual_timeout + late) * USECS_PER_MSEC
    /\ WaitReturns

\* a mutant of WaitPostmasterDeath: a pending stop request makes the exit
\* a graceful one
WaitPostmasterDeath_StopWins ==
    /\ pc = "Wait"
    /\ ~postmaster_alive
    /\ pc' = "Exited"
    /\ exit_status' = IF ShutdownRequestPending THEN 0 ELSE 1
    /\ UNCHANGED <<workers, history, profile, locks, gucs, config_file,
                   signals, timers, flags, slot, key, now, postmaster_alive, rd>>

\* lines 343-344: WaitLatch reports postmaster death, proc_exit(1)
WaitPostmasterDeath ==
    /\ pc = "Wait"
    /\ ~postmaster_alive
    /\ pc' = "Exited"
    /\ exit_status' = 1
    /\ UNCHANGED <<workers, history, profile, locks, gucs, config_file,
                   signals, timers, flags, slot, key, now, postmaster_alive, rd>>

(***************************************************************************)
(* The environment: signals, the configuration file, the postmaster.       *)
(***************************************************************************)
\* the time a signal finds the collector at: when it is blocked in
\* WaitLatch, part of the timeout may have gone by
SignalTimes ==
    IF pc = "Wait" /\ ~latch
    THEN {now + d * USECS_PER_MSEC :
            d \in {e \in {0, IF WaitHasTimeout THEN actual_timeout \div 2
                                ELSE MaxTime \div 4} :
                     now + e * USECS_PER_MSEC <= MaxTime * USECS_PER_MSEC}}
    ELSE {now}

\* lines 36-44: SIGTERM
SignalHandlerForShutdownRequest ==
    /\ pc # "Exited"
    /\ ShutdownRequestPending' = TRUE
    /\ latch' = TRUE
    /\ now' \in SignalTimes
    /\ UNCHANGED <<workers, history, profile, locks, gucs, config_file,
                   ConfigReloadPending, pc, exit_status, timers, flags, slot,
                   key, postmaster_alive, rd>>

\* a mutant of SignalHandlerForConfigReload: the handler itself loads the
\* configuration file
SignalHandlerForConfigReload_Applies ==
    /\ pc # "Exited"
    /\ ProcessConfigFile
    /\ latch' = TRUE
    /\ now' \in SignalTimes
    /\ UNCHANGED <<workers, history, profile, locks, config_file,
                   ConfigReloadPending, ShutdownRequestPending, pc,
                   exit_status, timers, flags, slot, key, postmaster_alive, rd>>

\* line 256: SIGHUP, handled by SignalHandlerForConfigReload
SignalHandlerForConfigReload ==
    /\ pc # "Exited"
    /\ ConfigReloadPending' = TRUE
    /\ latch' = TRUE
    /\ now' \in SignalTimes
    /\ UNCHANGED <<workers, history, profile, locks, gucs, config_file,
                   ShutdownRequestPending, pc, exit_status, timers, flags,
                   slot, key, postmaster_alive, rd>>

PostmasterDies ==
    /\ postmaster_alive
    /\ pc # "Exited"
    /\ postmaster_alive' = FALSE
    /\ UNCHANGED <<workers, history, profile, locks, gucs, config_file,
                   signals, pc, exit_status, timers, flags, slot, key, now, rd>>

(***************************************************************************)
(* Readers of the shared structures (the SQL-facing accessors, which are   *)
(* not part of collector.c): each takes the profile lock, the history      *)
(* lock, or the profile lock and then the history lock, in shared mode,    *)
(* reads, and releases what it holds.                                      *)
(***************************************************************************)
ReaderPlans == {"profile", "history", "both"}

ReaderBegin(r) ==
    /\ rd[r].st = "idle"
    /\ \E plan \in ReaderPlans :
         rd' = [rd EXCEPT ![r] =
                  [st |-> IF plan = "history" THEN "acq_history" ELSE "acq_profile",
                   plan |-> plan]]
    /\ UNCHANGED <<workers, history, profile, locks, gucs, config_file,
                   signals, pc, exit_status, timers, flags, slot, key, now,
                   postmaster_alive>>

\* LWLockAcquire(LW_SHARED): granted unless the lock is held exclusively
ReaderAcquire(r) ==
    /\ rd[r].st \in {"acq_profile", "acq_history"}
    /\ IF rd[r].st = "acq_profile"
       THEN /\ ~pgws_profile_lock.exclusive
            /\ pgws_profile_lock' =
                  [pgws_profile_lock EXCEPT !.shared = @ \cup {r}]
            /\ rd' = [rd EXCEPT ![r].st =
                        IF rd[r].plan = "both" THEN "acq_history" ELSE "reading"]
            /\ UNCHANGED pgws_history_lock
       ELSE /\ ~pgws_history_lock.exclusive
            /\ pgws_history_lock' =
                  [pgws_history_lock EXCEPT !.shared = @ \cup {r}]
            /\ rd' = [rd EXCEPT ![r].st = "reading"]
            /\ UNCHANGED pgws_profile_lock
    /\ UNCHANGED <<workers, history, profile, gucs, config_file, signals, pc,
                   exit_status, timers, flags, slot, key, now, postmaster_alive>>

ReaderRelease(r) ==
    /\ rd[r].st = "reading"
    /\ pgws_history_lock' = [pgws_history_lock EXCEPT !.shared = @ \ {r}]
    /\ pgws_profile_lock' = [pgws_profile_lock EXCEPT !.shared = @ \ {r}]
    /\ rd' = [rd EXCEPT ![r] = IdleReader]
    /\ UNCHANGED <<workers, history, profile, gucs, config_file, signals, pc,
                   exit_status, timers, flags, slot, key, now, postmaster_alive>>

(***************************************************************************)
(* Initial states and specifications.                                      *)
(***************************************************************************)
Config(hp, pp, max, ppid, pqid) ==
    [pgwsHistoryPeriod |-> hp, pgwsProfilePeriod |-> pp,
     pgwsMaxProfileEntries |-> max, pgwsWhetherProfilePid |-> ppid,
     pgwsWhetherProfileQueryId |-> pqid]

\* a worker that may show any pid and any wait event, with any query id
AnyProc == [pid : Pids, wait_event_info : WaitEvents]
AnyWorkers == [i \in Slots |-> AnyProc]
AnyQueryIds == [i \in Slots |-> QueryIds]

\* the state in which pgws_collector_main enters its loop (line 267-269)
\* with configuration cfg in effect, configuration file `file`, a history
\* ring of `size` items and workers ws, qs
InitWith(cfg, file, size, ws, qs) ==
    /\ procs = ws
    /\ pgws_proc_queryids = qs
    /\ pgws_history_ring = [items |-> [j \in 0 .. (size - 1) |-> ZeroItem],
                            index |-> 0]
    /\ pgws_profile_hash = EmptyTable
    /\ pgws_history_lock = FreeLock
    /\ pgws_profile_lock = FreeLock
    /\ pgwsHistoryBufferSize = size
    /\ pgwsHistoryPeriod = cfg.pgwsHistoryPeriod
    /\ pgwsProfilePeriod = cfg.pgwsProfilePeriod
    /\ pgwsMaxProfileEntries = cfg.pgwsMaxProfileEntries
    /\ pgwsWhetherProfilePid = cfg.pgwsWhetherProfilePid
    /\ pgwsWhetherProfileQueryId = cfg.pgwsWhetherProfileQueryId
    /\ config_file = file
    /\ ConfigReloadPending = FALSE
    /\ ShutdownRequestPending = FALSE
    /\ latch = FALSE
    /\ pc = "ResetLatch"
    /\ exit_status = -1
    /\ current_ts = 0
    /\ history_ts = 0
    /\ profile_ts = 0
    /\ history_diff = Int64(0)
    /\ profile_diff = Int64(0)
    /\ write_history = FALSE
    /\ write_profile = FALSE
    /\ slot = 0
    /\ key = NoKey
    /\ now = 0
    /\ postmaster_alive = TRUE
    /\ rd = [r \in Readers |-> IdleReader]
    /\ written = << >>
    /\ observed = EmptyTable
    /\ since = EmptyTable

\* the sampler alone, woken exactly when its timeout expires
NextSampler ==
    \/ ResetLatch
    \/ ProcessConfigReload
    \/ CheckShutdown
    \/ ReadClock
    \/ Decide
    \/ ProbeAcquireLocks
    \/ ProbeSlot
    \/ ProbeReleaseLocks
    \/ ResetSampleTimes
    \/ WaitLatchTimeout

\* the sampler, late wake-ups, signals and postmaster death
Next ==
    \/ NextSampler
    \/ ProbeMakeRoom
    \/ ProbeInsert
    \/ WaitLatchSet
    \/ WaitLatchLate
    \/ WaitPostmasterDeath
    \/ SignalHandlerForShutdownRequest
    \/ SignalHandlerForConfigReload
    \/ PostmasterDies

\* a free slot, whatever wait event its last owner has left in it, and
\* the slot of workers that never wait
FreeSlot == {p \in AnyProc : p.pid = 0}
NotWaiting == {p \in AnyProc : p.wait_event_info = 0}
\* a worker that waits on event 1 from time to time
BusyProc(p) == {[pid |-> p, wait_event_info |-> 0],
                [pid |-> p, wait_event_info |-> 1]}

\* both streams enabled; the configuration file may have been edited
Init ==
    \E file \in {Config(400, 500, 2, TRUE, FALSE),
                  Config(0, 500, 1, FALSE, FALSE)},
       idle \in {FreeSlot, NotWaiting} :
       InitWith(Config(400, 500, 2, TRUE, FALSE), file, 2,
                [i \in Slots |-> IF i = 0 THEN idle ELSE BusyProc(i)],
                [i \in Slots |-> {0}])
Spec == Init /\ [][Next]_vars

\* the sampler and the readers of the shared structures
InitLocks ==
    \E hp \in {400, 500} :
       LET cfg == Config(hp, 500, 3, TRUE, FALSE)
       IN  InitWith(cfg, cfg, 2,
                    [i \in Slots |-> IF i = 0 THEN FreeSlot ELSE BusyProc(i)],
                    [i \in Slots |-> {0}])
NextLocks ==
    \/ NextSampler
    \/ ProbeInsert
    \/ \E r \in Readers : ReaderBegin(r) \/ ReaderAcquire(r) \/ ReaderRelease(r)
SpecLocks == InitLocks /\ [][NextLocks]_vars

\* profile sampling only
InitProfile ==
    \E max \in {1, 2, 3}, ppid \in BOOLEAN, pqid \in BOOLEAN :
       LET cfg == Config(0, 400, max, ppid, pqid)
       IN  InitWith(cfg, cfg, 1, AnyWorkers, AnyQueryIds)
NextProfile == NextSampler \/ ProbeMakeRoom \/ ProbeInsert
SpecProfile == InitProfile /\ [][NextProfile]_vars

\* history sampling only
InitHistory ==
    \E size \in {1, 2, 3}, pqid \in BOOLEAN :
       LET cfg == Config(250, 0, 1, FALSE, pqid)
       IN  InitWith(cfg, cfg, size, AnyWorkers, AnyQueryIds)
SpecHistory == InitHistory /\ [][NextSampler]_vars

\* profile sampling with a configuration file that sets another
\* pgwsMaxProfileEntries, and SIGHUP
InitReload ==
    \E max \in {2, 3}, newmax \in {1, 2} :
       InitWith(Config(0, 400, max, TRUE, TRUE), Config(0, 400, newmax, TRUE, TRUE),
                1, AnyWorkers, AnyQueryIds)
NextReload == NextProfile \/ SignalHandlerForConfigReload \/ WaitLatchSet
SpecReload == InitReload /\ [][NextReload]_vars

\* a profile table that has been filled by workers that have exited
\* since: n entries, the j-th with key pid j + 1 and counter
\* ((a*j + b) mod m) + 1; its usage is its counter or, with `decayed` for
\* odd j, its counter decayed once
AgedKey(j) == [pid |-> j + 1, wait_event_info |-> 1, queryid |-> 0]
AgedTable(n, a, b, m, decayed) ==
    [k \in {AgedKey(j) : j \in 1 .. n} |->
        LET j == k.pid - 1
            u == ((a * j + b) % m) + 1
            fresh == [num |-> u * USAGE_INIT, exp |-> 0]
        IN  [counter |-> u,
             usage |-> IF decayed /\ j % 2 = 1 THEN UsageDecay(fresh) ELSE fresh]]

\* the state in which a profile pass at time t (milliseconds) has found,
\* in slot 0, the key k0 that is not in the table `table`, and is about to
\* make room for it (line 195)
InitMakeRoom(cfg, table, k0, t) ==
    /\ procs = [i \in Slots |-> BusyProc(i + 1)]
    /\ pgws_proc_queryids = [i \in Slots |-> {0}]
    /\ pgws_history_ring = [items |-> [j \in {0} |-> ZeroItem], index |-> 0]
    /\ pgws_profile_hash = table
    /\ pgws_history_lock = FreeLock
    /\ pgws_profile_lock = [exclusive |-> TRUE, shared |-> {}]
    /\ pgwsHistoryBufferSize = 1
    /\ pgwsHistoryPeriod = cfg.pgwsHistoryPeriod
    /\ pgwsProfilePeriod = cfg.pgwsProfilePeriod
    /\ pgwsMaxProfileEntries = cfg.pgwsMaxProfileEntries
    /\ pgwsWhetherProfilePid = cfg.pgwsWhetherProfilePid
    /\ pgwsWhetherProfileQueryId = cfg.pgwsWhetherProfileQueryId
    /\ config_file = cfg
    /\ ConfigReloadPending = FALSE
    /\ ShutdownRequestPending = FALSE
    /\ latch = FALSE
    /\ pc = "MakeRoom"
    /\ exit_status = -1
    /\ now = t * USECS_PER_MSEC
    /\ current_ts = t * USECS_PER_MSEC
    /\ history_ts = 0
    /\ profile_ts = 0
    /\ history_diff = Int64(t)
    /\ profile_diff = Int64(t)
    /\ write_history = FALSE
    /\ write_profile = TRUE
    /\ slot = 0
    /\ key = k0
    /\ postmaster_alive = TRUE
    /\ rd = [r \in Readers |-> IdleReader]
    /\ written = << >>
    /\ observed = Counted([k \in DOMAIN table |-> table[k].counter], k0)
    /\ since = Counted([k \in DOMAIN table |-> table[k].counter], k0)

\* deallocation from tables at capacity, of 1 to 240 entries, with
\* pairwise distinct usage values (m = 251) or with ties (m = 3)
InitDealloc ==
    \/ \E n \in {1, 10, 11, 12, 30, 219, 220, 240}, a \in {1, 3, 100},
          b \in {0, 249}, decayed \in BOOLEAN :
          InitMakeRoom(Config(0, 400, n, TRUE, FALSE),
                       AgedTable(n, a, b, 251, decayed),
                       [pid |-> 1, wait_event_info |-> 1, queryid |-> 0], 400)
    \/ \E n \in {11, 12}, a \in {1, 2} :
          InitMakeRoom(Config(0, 400, n, TRUE, FALSE),
                       AgedTable(n, a, 0, 3, FALSE),
                       [pid |-> 1, wait_event_info |-> 1, queryid |-> 0], 400)
SpecDealloc == InitDealloc /\ [][NextProfile]_vars

\* both streams enabled with several pairs of periods, the sampler woken
\* exactly when its timeout expires
InitCadence ==
    \E hp \in {100, 200}, pp \in {250, 300} :
       LET cfg == Config(hp, pp, 2, TRUE, FALSE)
       IN  InitWith(cfg, cfg, 2,
                    [i \in Slots |-> IF i = 0 THEN FreeSlot ELSE BusyProc(i)],
                    [i \in Slots |-> {0}])
NextCadence == NextSampler \/ ProbeInsert
SpecCadence == InitCadence /\ [][NextCadence]_vars

\* two workers, pids 1 and 2, that wait on the same event with the same
\* query id all the time; the other slots are free
TwoWorkers ==
    [i \in Slots |-> IF i < 2 THEN {[pid |-> i + 1, wait_event_info |-> 1]}
                     ELSE FreeSlot]
InitToggle ==
    \E max \in {1, 2, 3}, ppid \in BOOLEAN, pqid \in BOOLEAN, q \in QueryIds :
       LET cfg == Config(0, 400, max, ppid, pqid)
       IN  InitWith(cfg, cfg, 1, TwoWorkers, [i \in Slots |-> {q}])
SpecToggle == InitToggle /\ [][NextProfile]_vars

\* every combination of enabled and disabled streams, a configuration
\* file that sets another one, SIGHUP and postmaster death
InitTimeout ==
    \E hp \in {0, 400}, pp \in {0, 500}, fhp \in {0, 300}, fpp \in {0, 500} :
       InitWith(Config(hp, pp, 2, TRUE, FALSE), Config(fhp, fpp, 2, TRUE, FALSE),
                2, [i \in Slots |-> IF i = 0 THEN FreeSlot ELSE BusyProc(i)],
                [i \in Slots |-> {0}])
NextTimeout ==
    \/ NextSampler
    \/ ProbeInsert
    \/ WaitLatchSet
    \/ WaitLatchLate
    \/ WaitPostmasterDeath
    \/ SignalHandlerForConfigReload
    \/ PostmasterDies
SpecTimeout == InitTimeout /\ [][NextTimeout]_vars

\* the make-space loop on aged tables of n entries with a
\* pgwsMaxProfileEntries that a reload has lowered to max <= n, or that
\* the table has just reached (max = n); the sampler keeps running
InitLowered ==
    \E n \in {3, 12, 30}, max \in {1, 2, 5, 12, 30}, a \in {1, 3},
       b \in {0, 249} :
          /\ max <= n
          /\ InitMakeRoom(Config(0, 400, max, TRUE, FALSE),
                          AgedTable(n, a, b, 251, FALSE),
                          [pid |-> 1, wait_event_info |-> 1, queryid |-> 0], 400)
SpecMakeRoom ==
    InitLowered /\ [][NextProfile]_vars /\ WF_vars(NextProfile)

\* every combination of enabled and disabled streams, SIGTERM at any
\* moment, postmaster death; the sampler, when it can take a step, takes
\* one: it runs, and WaitLatch returns when the latch is set, the timeout
\* has expired or the postmaster has died
InitStop ==
    \E hp \in {0, 400}, pp \in {0, 500} :
       LET cfg == Config(hp, pp, 2, TRUE, FALSE)
       IN  InitWith(cfg, cfg, 2,
                    [i \in Slots |-> IF i = 0 THEN FreeSlot ELSE BusyProc(i)],
                    [i \in Slots |-> {0}])
SamplerStep ==
    \/ NextSampler
    \/ ProbeInsert
    \/ WaitLatchSet
    \/ WaitPostmasterDeath
NextStop ==
    \/ SamplerStep
    \/ WaitLatchLate
    \/ SignalHandlerForShutdownRequest
    \/ PostmasterDies
SpecStop == InitStop /\ [][NextStop]_vars /\ WF_vars(SamplerStep)

\* both streams enabled, a configuration file that disables the history
\* and changes pgwsMaxProfileEntries and a toggle, SIGHUP and SIGTERM at
\* any moment, late wake-ups; the sampler, when it can take a step, takes
\* one
InitPass ==
    InitWith(Config(400, 500, 2, TRUE, FALSE), Config(0, 500, 1, FALSE, FALSE),
             2, [i \in Slots |-> IF i = 0 THEN FreeSlot ELSE BusyProc(i)],
             [i \in Slots |-> {0}])
PassStep ==
    \/ NextSampler
    \/ ProbeMakeRoom
    \/ ProbeInsert
    \/ WaitLatchSet
NextPass ==
    \/ PassStep
    \/ WaitLatchLate
    \/ SignalHandlerForShutdownRequest
    \/ SignalHandlerForConfigReload
SpecPass == InitPass /\ [][NextPass]_vars /\ WF_vars(PassStep)

\* elapsed times up to and beyond what an int holds: hi * 2^31 + lo
\* milliseconds
Elapsed == [hi : {0, 1, 2, 3}, lo : {0, 1, 399, 400, INT_MAX}]

\* the state in which an iteration has read the clock (line 300) and has
\* found the elapsed times hd and pd, with the configuration cfg in
\* effect, as after a reload.  The clock values themselves are beyond the
\* integers of the model: the timestamps are 0 and the elapsed times
\* stand for them.
InitElapsed ==
    \E hp \in {0, 1, 400, INT_MAX}, pp \in {0, 500}, hd \in Elapsed,
       pd \in Elapsed :
       /\ procs = [i \in Slots |-> IF i = 0 THEN FreeSlot ELSE BusyProc(i)]
       /\ pgws_proc_queryids = [i \in Slots |-> {0}]
       /\ pgws_history_ring = [items |-> [j \in {0, 1} |-> ZeroItem], index |-> 0]
       /\ pgws_profile_hash = EmptyTable
       /\ pgws_history_lock = FreeLock
       /\ pgws_profile_lock = FreeLock
       /\ pgwsHistoryBufferSize = 2
       /\ pgwsHistoryPeriod = hp
       /\ pgwsProfilePeriod = pp
       /\ pgwsMaxProfileEntries = 2
       /\ pgwsWhetherProfilePid = TRUE
       /\ pgwsWhetherProfileQueryId = FALSE
       /\ config_file = Config(hp, pp, 2, TRUE, FALSE)
       /\ ConfigReloadPending = FALSE
       /\ ShutdownRequestPending = FALSE
       /\ latch = FALSE
       /\ pc = "Decide"
       /\ exit_status = -1
       /\ current_ts = 0
       /\ history_ts = 0
       /\ profile_ts = 0
       /\ history_diff = hd
       /\ profile_diff = pd
       /\ write_history = FALSE
       /\ write_profile = FALSE
       /\ slot = 0
       /\ key = NoKey
       /\ now = 0
       /\ postmaster_alive = TRUE
       /\ rd = [r \in Readers |-> IdleReader]
       /\ written = << >>
       /\ observed = EmptyTable
       /\ since = EmptyTable
\* the rest of that iteration, up to WaitLatch
NextElapsed ==
    \/ Decide
    \/ ProbeAcquireLocks
    \/ ProbeSlot
    \/ ProbeInsert
    \/ ProbeReleaseLocks
    \/ ResetSampleTimes
SpecElapsed == InitElapsed /\ [][NextElapsed]_vars

\* both streams, workers that show any pid and any wait event at any
\* moment, with and without the pid in the profile key
InitRaces ==
    \E hp \in {250, 500}, max \in {1, 2}, ppid \in BOOLEAN :
       LET cfg == Config(hp, 500, max, ppid, FALSE)
       IN  InitWith(cfg, cfg, 2, AnyWorkers, [i \in Slots |-> {0}])
SpecRaces == InitRaces /\ [][NextProfile]_vars

\* profile sampling from an empty table and from aged tables
SpecAggregate == (InitProfile \/ InitDealloc) /\ [][NextProfile]_vars

(***************************************************************************)
(* The claims.                                                             *)
(***************************************************************************)
\* a step that enters a new key in the profile table
InsertionStep == (DOMAIN pgws_profile_hash') \ (DOMAIN pgws_profile_hash) # {}

\* C1: with pgwsMaxProfileEntries fixed, whenever probe_waits has entered
\* a new key in the profile table, the table holds at most
\* pgwsMaxProfileEntries entries.
C1_CapacityAfterInsertion ==
    [][InsertionStep =>
          TableSize(pgws_profile_hash') <= pgwsMaxProfileEntries']_vars

\* C1 witness: a key has just been entered (its counter is 1) and it filled
\* a table of more than one entry, keys having been deallocated before.
C1_Witness ==
    /\ pgwsMaxProfileEntries > 1
    /\ TableSize(pgws_profile_hash) = pgwsMaxProfileEntries
    /\ \E k \in DOMAIN pgws_profile_hash : pgws_profile_hash[k].counter = 1
    /\ \E k \in DOMAIN observed : k \notin DOMAIN pgws_profile_hash

\* C2 as stated: in every reachable state the table holds at most the
\* pgwsMaxProfileEntries in effect.
C2_BoundInEveryState == TableSize(pgws_profile_hash) <= pgwsMaxProfileEntries

\* C2 amended: the table is beyond the pgwsMaxProfileEntries in effect
\* only through a reload that lowered pgwsMaxProfileEntries below the
\* table's size: a step that leaves the table beyond the bound did not add
\* an entry, and if the table was within the bound before it, the step
\* lowered pgwsMaxProfileEntries.
C2_BoundBrokenOnlyByReload ==
    [][TableSize(pgws_profile_hash') > pgwsMaxProfileEntries' =>
          /\ TableSize(pgws_profile_hash') <= TableSize(pgws_profile_hash)
          /\ TableSize(pgws_profile_hash) <= pgwsMaxProfileEntries =>
                pgwsMaxProfileEntries' < pgwsMaxProfileEntries]_vars

\* C2 witness: a reload has left the table beyond the bound in effect, and
\* the sampler is about to make room for a new key.
C2_Witness ==
    /\ TableSize(pgws_profile_hash) > pgwsMaxProfileEntries
    /\ pc = "MakeRoom"

\* the number of items written to the ring so far, and the capacity
ItemsWritten == Len(written)
RingCapacity == pgwsHistoryBufferSize

\* C3: after N items have been written to a ring of capacity C, the cursor
\* is N, and the j-th item written (from 0) is in slot j mod C for each of
\* the last C items (N-C <= j < N), so that the ring holds exactly the
\* last C items written once N >= C; and the cursor never decreases.
C3_RingWrap ==
    /\ [](/\ pgws_history_ring.index = ItemsWritten
          /\ DOMAIN pgws_history_ring.items = 0 .. (RingCapacity - 1)
          /\ \A j \in 0 .. (ItemsWritten - 1) :
                j >= ItemsWritten - RingCapacity =>
                   pgws_history_ring.items[j % RingCapacity] = written[j + 1])
    /\ [][pgws_history_ring'.index >= pgws_history_ring.index]_vars

\* C3 witness: a ring of at least two slots has wrapped, and the last two
\* items written differ.
C3_Witness ==
    /\ RingCapacity >= 2
    /\ ItemsWritten > RingCapacity
    /\ pgws_history_ring.index = ItemsWritten
    /\ written[ItemsWritten] # written[ItemsWritten - 1]

\* usage values are pairwise distinct in table h
DistinctUsage(h) ==
    \A j, k \in DOMAIN h : j # k => entry_cmp(h[j], h[k]) # 0

\* a step that is one call of pgws_entry_dealloc
DeallocStep == pc = "MakeRoom" /\ pc' = "MakeRoom"

\* C4: one call of pgws_entry_dealloc on a table of n entries with
\* pairwise distinct usage values removes exactly the
\* min(max(10, floor(n*5/100)), n) entries of lowest usage: it removes that
\* many entries, adds none, every removed entry had a lower usage than
\* every surviving one, and so every entry with a usage higher than a
\* surviving entry's survives.
C4_EvictsLowestUsage ==
    [][DeallocStep /\ DistinctUsage(pgws_profile_hash) =>
          LET old == pgws_profile_hash
              n == Cardinality(DOMAIN old)
              tenth == IF 10 > (n * 5) \div 100 THEN 10 ELSE (n * 5) \div 100
              nvictims == IF tenth < n THEN tenth ELSE n
              survivors == DOMAIN pgws_profile_hash'
              removed == (DOMAIN old) \ survivors
          IN  /\ survivors \subseteq DOMAIN old
              /\ Cardinality(removed) = nvictims
              /\ \A v \in removed, k \in survivors :
                    UsageLess(old[v].usage, old[k].usage)
              /\ \A k \in survivors, e \in DOMAIN old :
                    UsageLess(old[k].usage, old[e].usage) => e \in survivors]_vars

\* C4 witness: pgws_entry_dealloc has removed 11 = floor(220*5/100) of 220
\* entries with distinct usage values; the 209 others are left, decayed.
C4_Witness ==
    /\ pc = "MakeRoom"
    /\ pgwsMaxProfileEntries = 220
    /\ TableSize(pgws_profile_hash) = 209
    /\ DistinctUsage(pgws_profile_hash)
    /\ \A k \in DOMAIN pgws_profile_hash : pgws_profile_hash[k].usage.exp >= 1

\* USAGE_DECREASE_NUM^e
NumPow(e) == USAGE_DECREASE_NUM ^ e

\* the usage of an entry of counter c that no pass of pgws_entry_dealloc
\* has decayed
UndecayedUsage(c) == USAGE_INIT + (c - 1) * USAGE_INCREASE

\* C5 as stated: with pgwsWhetherProfilePid, a key of the table that has
\* been observed k times has counter k, and usage
\* USAGE_INIT + (k-1)*USAGE_INCREASE up to the decay of the passes of
\* pgws_entry_dealloc.
C5_CounterIsObservationCount ==
    pgwsWhetherProfilePid =>
       \A k \in DOMAIN pgws_profile_hash :
          LET e == pgws_profile_hash[k]
              U == UndecayedUsage(observed[k])
          IN  /\ e.counter = observed[k]
              /\ e.usage.num <= U * DenPow(e.usage.exp)
              /\ e.usage.num >= U * NumPow(e.usage.exp)

\* C5 amended: with pgwsWhetherProfilePid, a key of the table that has
\* been observed k times since its entry was last created has counter k;
\* its usage is USAGE_INIT + (k-1)*USAGE_INCREASE if no pass of
\* pgws_entry_dealloc has run since, and otherwise lies between that value
\* decayed once per pass and that value.  The observations of a key that
\* were made before its entry was deallocated are not counted: every
\* observed key is counted from its first observation, one per
\* observation, until its entry is deallocated, and from 1 again when it
\* is entered again.
C5_CountsSinceEntered ==
    /\ [](pgwsWhetherProfilePid =>
            /\ \A k \in DOMAIN pgws_profile_hash :
                  LET e == pgws_profile_hash[k]
                      U == UndecayedUsage(since[k])
                  IN  /\ e.counter = since[k]
                      /\ since[k] <= observed[k]
                      /\ e.usage.exp = 0 => e.usage.num = U
                      /\ e.usage.num <= U * DenPow(e.usage.exp)
                      /\ e.usage.num >= U * NumPow(e.usage.exp)
            /\ \A k \in DOMAIN since :
                  k \in DOMAIN pgws_profile_hash \/ (pc = "MakeRoom" /\ k = key))
    /\ [][\A k \in DOMAIN since' :
            /\ k \in DOMAIN observed'
            /\ IF k \in DOMAIN since
               THEN /\ k \in DOMAIN observed
                    /\ since'[k] - since[k] = observed'[k] - observed[k]
                    /\ since'[k] - since[k] \in {0, 1}
               ELSE since'[k] = 1]_vars

\* C5 witness: with pgwsWhetherProfilePid, an entry that has been through
\* a pass of pgws_entry_dealloc and has been found again since: its
\* counter is the number of its observations, its usage is below
\* UndecayedUsage.
C5_Witness ==
    /\ pgwsWhetherProfilePid
    /\ \E k \in DOMAIN pgws_profile_hash :
          LET e == pgws_profile_hash[k]
          IN  /\ e.counter >= 2
              /\ e.counter = observed[k]
              /\ e.usage.exp >= 1
              /\ e.usage.num % USAGE_DECREASE_NUM # 0
              /\ e.usage.num < UndecayedUsage(e.counter) * DenPow(e.usage.exp)

\* the time in milliseconds since the sampler began, the last multiple of
\* a period p up to now (as a timestamp), the first multiple after now
\* (in milliseconds), and whether now is a sample time of period p
NowMs == now \div USECS_PER_MSEC
LastMultiple(p) == (NowMs \div p) * p * USECS_PER_MSEC
NextMultiple(p) == ((NowMs \div p) + 1) * p
Due(p) == NowMs > 0 /\ NowMs % p = 0

\* C6: with both periods enabled and the sampler woken exactly when its
\* timeout expires, a history pass is decided at every multiple of
\* pgwsHistoryPeriod and at no other time, a profile pass at every
\* multiple of pgwsProfilePeriod and at no other time: when the sampler
\* waits, each stream's last-sample time is the last multiple of its
\* period, and the timeout ends at the first multiple of either period.
C6_IndependentCadences ==
    /\ [](pgwsHistoryPeriod # 0 /\ pgwsProfilePeriod # 0 /\ pc = "Wait" =>
            /\ history_ts = LastMultiple(pgwsHistoryPeriod)
            /\ profile_ts = LastMultiple(pgwsProfilePeriod)
            /\ NowMs + actual_timeout =
                  Min(NextMultiple(pgwsHistoryPeriod),
                      NextMultiple(pgwsProfilePeriod)))
    /\ [][pgwsHistoryPeriod # 0 /\ pgwsProfilePeriod # 0 /\ pc = "Decide" =>
            /\ write_history' <=> Due(pgwsHistoryPeriod)
            /\ write_profile' <=> Due(pgwsProfilePeriod)]_vars

\* C6 witness: periods 100 and 250; at 300 ms the history pass has been
\* made, 50 ms after the profile pass of 250 ms restarted the profile
\* stream, and items have been written.
C6_Witness ==
    /\ pgwsHistoryPeriod = 100
    /\ pgwsProfilePeriod = 250
    /\ pc = "Wait"
    /\ NowMs = 300
    /\ history_ts = 300 * USECS_PER_MSEC
    /\ profile_ts = 250 * USECS_PER_MSEC
    /\ ItemsWritten >= 1
    /\ TableSize(pgws_profile_hash) >= 1

\* the slot the pass is at shows, whenever it is read, pid 0, or,
\* whenever it is read, wait event 0
SlotIsIdle ==
    \/ \A p \in procs[slot] : p.pid = 0
    \/ \A p \in procs[slot] : p.wait_event_info = 0

\* C7: in a probe pass, the step over a slot whose pid is 0 (whatever its
\* wait event) or whose wait event is 0 (whatever its pid) changes
\* neither the history ring (items, index) nor the profile table, and
\* does not enter the make-space loop; no item of the ring and no key of
\* the table has wait event 0, no item has pid 0.
C7_SkipOnIdle ==
    /\ [][pc = "Slot" /\ slot < NumProcs /\ SlotIsIdle =>
            /\ pc' = "Slot"
            /\ UNCHANGED <<pgws_history_ring, pgws_profile_hash, written,
                           observed, since, key>>]_vars
    /\ [](/\ \A j \in 1 .. Len(written) :
               written[j].pid # 0 /\ written[j].wait_event_info # 0
          /\ \A k \in DOMAIN observed : k.wait_event_info # 0)

\* C7 witness: a pass that writes both the history and the profile has
\* gone over all slots; slot 0 shows workers (pid not 0) that do not wait
\* and has been skipped, another slot has been sampled: one item, one
\* entry.
C7_Witness ==
    /\ pc = "Slot"
    /\ slot = NumProcs
    /\ write_history
    /\ write_profile
    /\ \A p \in procs[0] : p.wait_event_info = 0
    /\ \E p \in procs[0] : p.pid # 0
    /\ ItemsWritten = 1
    /\ written[1].ts = now
    /\ TableSize(pgws_profile_hash) = 1

\* the first profile pass has gone over all slots
FirstPassDone ==
    /\ write_profile
    /\ profile_ts = 0
    /\ pc = "ReleaseProfile" \/ pc = "ResetTs" \/ (pc = "Slot" /\ slot = NumProcs)

\* the pids of the keys of the table, and its counters
KeyPids == {k.pid : k \in DOMAIN pgws_profile_hash}
Counters == {pgws_profile_hash[k].counter : k \in DOMAIN pgws_profile_hash}

InProfilePass ==
    write_profile /\ pc \in {"AcquireHistory", "Slot", "MakeRoom", "ReleaseProfile"}
InHistoryPass == write_history /\ pc \in {"Slot", "MakeRoom"}

\* C9: while a reader holds the history lock (the profile lock) in shared
\* mode, no step changes the ring, items or index (the profile table);
\* the sampler changes a structure only in steps that begin and end with
\* the structure's lock held in exclusive mode, which it holds from the
\* beginning of its pass over the slots to the end, so that no reader
\* holds a lock while a pass that writes its structure is under way.
C9_ReadersSeeWholePasses ==
    /\ [][/\ pgws_history_lock.shared # {} => UNCHANGED pgws_history_ring
          /\ pgws_profile_lock.shared # {} => UNCHANGED pgws_profile_hash
          /\ pgws_history_ring' # pgws_history_ring =>
                pgws_history_lock.exclusive /\ pgws_history_lock'.exclusive
          /\ pgws_profile_hash' # pgws_profile_hash =>
                pgws_profile_lock.exclusive /\ pgws_profile_lock'.exclusive]_vars
    /\ [](/\ InHistoryPass => pgws_history_lock.exclusive
          /\ InProfilePass => pgws_profile_lock.exclusive
          /\ pgws_history_lock.exclusive => pgws_history_lock.shared = {}
          /\ pgws_profile_lock.exclusive => pgws_profile_lock.shared = {})

\* C9 witness: the ring and the table have been written, a reader holds
\* both locks in shared mode, and the sampler, that is to write both,
\* waits for the profile lock.
C9_Witness ==
    /\ ItemsWritten >= 1
    /\ TableSize(pgws_profile_hash) >= 1
    /\ \E r \in Readers :
          r \in pgws_history_lock.shared /\ r \in pgws_profile_lock.shared
    /\ pc = "AcquireProfile"
    /\ write_history
    /\ write_profile

\* the sampler waits for a lock that reader r holds; reader r waits for a
\* lock that the sampler holds
SamplerWaitsFor(r) ==
    \/ pc = "AcquireProfile" /\ write_profile /\ r \in pgws_profile_lock.shared
    \/ pc = "AcquireHistory" /\ write_history /\ r \in pgws_history_lock.shared
ReaderWaitsForSampler(r) ==
    \/ rd[r].st = "acq_profile" /\ pgws_profile_lock.exclusive
    \/ rd[r].st = "acq_history" /\ pgws_history_lock.exclusive

\* C10: the sampler holds the history lock, in a pass that writes both
\* structures, only while it holds the profile lock; with readers that
\* take one lock, or the profile lock and then the history lock, the
\* sampler and a reader never wait for each other, and whenever the
\* sampler waits for a lock, every reader that holds it can release it
\* without the sampler.
C10_NoDeadlock ==
    /\ pgws_history_lock.exclusive /\ write_profile => pgws_profile_lock.exclusive
    /\ \A r \in Readers : ~(SamplerWaitsFor(r) /\ ReaderWaitsForSampler(r))
    /\ \A r \in Readers : SamplerWaitsFor(r) =>
          \/ ENABLED ReaderRelease(r)
          \/ rd[r].st = "acq_history" /\ ENABLED ReaderAcquire(r)

\* C10 witness: the sampler holds the profile lock and waits for the
\* history lock, that a reader holds, while another reader waits for the
\* profile lock.
C10_Witness ==
    /\ pc = "AcquireHistory"
    /\ write_history
    /\ pgws_profile_lock.exclusive
    /\ \E r \in Readers : SamplerWaitsFor(r)
    /\ \E r \in Readers : ReaderWaitsForSampler(r)

\* C11: the sampler exits with status 0 exactly in the step that finds
\* ShutdownRequestPending at the top of an iteration (line 294), and with
\* status 1 exactly in the step in which WaitLatch reports the death of
\* the postmaster (line 343), whether or not a stop request is pending;
\* it exits once, and after the exit no step changes the ring, the
\* table, the locks or the position of the sampler.
C11_ExitOutcomes ==
    /\ [][/\ pc = "CheckShutdown" /\ pc' # pc =>
                IF ShutdownRequestPending
                THEN pc' = "Exited" /\ exit_status' = 0
                ELSE pc' = "ReadClock" /\ exit_status' = exit_status
          /\ pc = "Wait" /\ pc' = "Exited" =>
                ~postmaster_alive /\ exit_status' = 1
          /\ exit_status' # exit_status =>
                /\ exit_status = -1
                /\ pc' = "Exited"
                /\ exit_status' = 0 => pc = "CheckShutdown" /\ ShutdownRequestPending
                /\ exit_status' = 1 => pc = "Wait" /\ ~postmaster_alive
                /\ exit_status' \in {0, 1}
          /\ pc = "Exited" =>
                /\ pc' = "Exited"
                /\ UNCHANGED <<pgws_history_ring, pgws_profile_hash, written,
                               observed, pgws_history_lock, pgws_profile_lock,
                               exit_status>>]_vars
    /\ [](pc = "Exited" <=> exit_status # -1)

\* C11 witness: the sampler has exited with status 1 while a stop request
\* was pending, after it had written items and entries.
C11_Witness ==
    /\ pc = "Exited"
    /\ exit_status = 1
    /\ ShutdownRequestPending
    /\ ItemsWritten >= 1
    /\ TableSize(pgws_profile_hash) >= 1

\* the time that remains of a period p since the last sample at ts:
\* p minus the elapsed milliseconds, floored at 0
Remaining(p, ts) == Max(p - millisecs_diff(ts, now).lo, 0)
\* the sampler is blocked in WaitLatch and nothing has woken it yet: now
\* is still the time at which this iteration read the clock
Sleeping == pc = "Wait" /\ ~latch

\* C12: when the sampler enters WaitLatch, the timeout is the minimum of
\* the two remaining times if both periods are not 0 and the remaining
\* time of the enabled stream if one period is 0, the remaining times
\* being taken after the resets of lines 311-321; a wait that ends
\* without the latch or postmaster death has lasted at least the timeout;
\* if both periods are 0 the wait has no timeout and is ended by the
\* latch or by postmaster death only.
C12_NextSleepDuration ==
    /\ [](Sleeping =>
            /\ pgwsHistoryPeriod # 0 /\ pgwsProfilePeriod # 0 =>
                  actual_timeout =
                     Min(Remaining(pgwsHistoryPeriod, history_ts),
                         Remaining(pgwsProfilePeriod, profile_ts))
            /\ pgwsHistoryPeriod # 0 /\ pgwsProfilePeriod = 0 =>
                  actual_timeout = Remaining(pgwsHistoryPeriod, history_ts)
            /\ pgwsHistoryPeriod = 0 /\ pgwsProfilePeriod # 0 =>
                  actual_timeout = Remaining(pgwsProfilePeriod, profile_ts)
            /\ WaitHasTimeout <=> (pgwsHistoryPeriod # 0 \/ pgwsProfilePeriod # 0))
    /\ [][Sleeping /\ pc' # "Wait" /\ ~latch' =>
            \/ pc' = "Exited" /\ ~postmaster_alive
            \/ /\ pgwsHistoryPeriod # 0 \/ pgwsProfilePeriod # 0
               /\ pc' = "ResetLatch"
               /\ now' >= now + actual_timeout * USECS_PER_MSEC]_vars

\* C12 witness: both streams enabled; the history pass of 400 ms has been
\* made, the profile stream has 100 ms left and the history stream 400:
\* the sampler sleeps for 100 ms.
C12_Witness ==
    /\ Sleeping
    /\ pgwsHistoryPeriod = 400
    /\ pgwsProfilePeriod = 500
    /\ history_ts = now
    /\ profile_ts = 0
    /\ actual_timeout = 100

\* C13: no step taken while pgwsHistoryPeriod is 0 changes the ring, its
\* items or its index, and no pass that writes the history is under way
\* then, whatever time has gone by since history_ts; no step taken while
\* pgwsProfilePeriod is 0 changes the profile table, and no pass that
\* writes the profile is under way then.
C13_ZeroPeriodDisables ==
    /\ [][/\ pgwsHistoryPeriod = 0 =>
                UNCHANGED <<pgws_history_ring, written>>
          /\ pgwsProfilePeriod = 0 =>
                UNCHANGED <<pgws_profile_hash, observed>>]_vars
    /\ [](/\ pgwsHistoryPeriod = 0 => ~write_history
          /\ pgwsProfilePeriod = 0 => ~write_profile)

\* C13 witness: the history stream has written an item and has then been
\* disabled by a reload; more than its former period later a profile
\* pass has gone over the slots and has entered a key, the ring being as
\* it was.
C13_Witness ==
    /\ pgwsHistoryPeriod = 0
    /\ ItemsWritten = 1
    /\ now - written[1].ts >= 500 * USECS_PER_MSEC
    /\ write_profile
    /\ pc = "Slot"
    /\ slot = NumProcs
    /\ TableSize(pgws_profile_hash) >= 1

\* C14: with pgwsMaxProfileEntries >= 1, also one that a reload has
\* lowered below the size of the table, the make-space loop of a new key
\* ends: every pass of pgws_entry_dealloc removes at least one entry, the
\* loop is left with fewer than pgwsMaxProfileEntries entries, and the
\* key is then entered with counter 1 and usage USAGE_INIT, the pass
\* going on with the next slot.
C14_MakeRoomTerminates ==
    /\ (pc = "MakeRoom") ~> (pc = "Slot" /\ key = NoKey)
    /\ [][DeallocStep =>
            TableSize(pgws_profile_hash') < TableSize(pgws_profile_hash)]_vars
    /\ [][pc = "MakeRoom" /\ pc' # "MakeRoom" =>
            /\ TableSize(pgws_profile_hash) < pgwsMaxProfileEntries
            /\ pc' = "Slot"
            /\ slot' = slot + 1
            /\ DOMAIN pgws_profile_hash' = (DOMAIN pgws_profile_hash) \cup {key}
            /\ key \notin DOMAIN pgws_profile_hash
            /\ pgws_profile_hash'[key] = NewEntry]_vars

\* C14 witness: pgwsMaxProfileEntries is 5 and the table held 30 entries;
\* two passes of pgws_entry_dealloc have left 10 entries, and the loop
\* goes on.
C14_Witness ==
    /\ pc = "MakeRoom"
    /\ pgwsMaxProfileEntries = 5
    /\ TableSize(pgws_profile_hash) = 10
    /\ Cardinality(DOMAIN observed) = 31
    /\ \A k \in DOMAIN pgws_profile_hash : pgws_profile_hash[k].usage.exp >= 2

\* C15: a stop request, whenever it is raised, leads to the exit of the
\* sampler, with status 0 if the postmaster is alive; the sampler is
\* never in WaitLatch with a stop request pending and the latch not set.
C15_StopNeverLost ==
    /\ ShutdownRequestPending ~> (pc = "Exited")
    /\ [](pc = "Wait" /\ ShutdownRequestPending => latch)
    /\ [](pc = "Exited" /\ postmaster_alive => exit_status = 0)

\* C15 witness: both periods are 0; the stop request was raised while the
\* sampler was in a WaitLatch without timeout, and the sampler has exited
\* with status 0.
C15_Witness ==
    /\ pgwsHistoryPeriod = 0
    /\ pgwsProfilePeriod = 0
    /\ now > 0
    /\ postmaster_alive
    /\ pc = "Exited"
    /\ exit_status = 0

\* the positions of the sampler in probe_waits and in the resets that
\* follow it, and the positions at the top of an iteration
InPass ==
    pc \in {"AcquireProfile", "AcquireHistory", "Slot", "MakeRoom",
            "ReleaseProfile", "ResetTs"}
HoldsNoLock == ~pgws_history_lock.exclusive /\ ~pgws_profile_lock.exclusive

\* C16: a pass that has begun goes on to its end whatever requests are
\* raised: it does not exit, it goes over the slots in order up to the
\* last, the periods, pgwsMaxProfileEntries and the toggles do not change
\* during it, and it ends in WaitLatch with both locks released.  The
\* requests are taken into account at the top of an iteration only
\* (lines 287-295); the sampler holds no lock there, in WaitLatch, or
\* after its exit.
C16_PassRunsToCompletion ==
    /\ InPass ~> (pc = "Wait" /\ HoldsNoLock)
    /\ [][/\ InPass =>
                /\ UNCHANGED gucs
                /\ ShutdownRequestPending => ShutdownRequestPending'
                /\ ConfigReloadPending => ConfigReloadPending'
                /\ pc' # "Exited"
                /\ InPass' \/ (pc = "ResetTs" /\ pc' = "Wait")
          /\ pc = "Slot" /\ pc' = "Slot" => slot' \in {slot, slot + 1}
          /\ pc = "Slot" /\ pc' = "ReleaseProfile" => slot = NumProcs
          /\ pc = "MakeRoom" /\ pc' # pc => pc' = "Slot" /\ slot' = slot + 1
          /\ gucs' # gucs \/ (ConfigReloadPending /\ ~ConfigReloadPending') =>
                pc = "CheckReload"
          /\ pc' = "Exited" /\ pc # "Exited" => pc \in {"CheckShutdown", "Wait"}]_vars
    /\ [](~InPass => HoldsNoLock)

\* C16 witness: a stop request and a reload request are pending, the
\* configuration file differs from the configuration in effect, and the
\* pass has gone over all slots, has written an item and has released
\* its locks.
C16_Witness ==
    /\ pc = "ResetTs"
    /\ ShutdownRequestPending
    /\ ConfigReloadPending
    /\ config_file.pgwsHistoryPeriod # pgwsHistoryPeriod
    /\ write_history
    /\ write_profile
    /\ ItemsWritten >= 1
    /\ written[ItemsWritten].ts = now
    /\ HoldsNoLock

\* the three ways the profile table changes: an entry k that is found is
\* counted, a new key is entered below capacity, a pass of
\* pgws_entry_dealloc is made for a new key at or above capacity
FoundStep(k) ==
    /\ pc = "Slot"
    /\ DOMAIN pgws_profile_hash' = DOMAIN pgws_profile_hash
    /\ pgws_profile_hash'[k].counter = pgws_profile_hash[k].counter + 1
    /\ pgws_profile_hash'[k].usage.exp = pgws_profile_hash[k].usage.exp
    /\ pgws_profile_hash'[k].usage.num =
          pgws_profile_hash[k].usage.num
             + USAGE_INCREASE * DenPow(pgws_profile_hash[k].usage.exp)
    /\ \A j \in (DOMAIN pgws_profile_hash) \ {k} :
          pgws_profile_hash'[j] = pgws_profile_hash[j]
EnterStep ==
    /\ pc = "MakeRoom"
    /\ key \notin DOMAIN pgws_profile_hash
    /\ TableSize(pgws_profile_hash) < pgwsMaxProfileEntries
    /\ DOMAIN pgws_profile_hash' = (DOMAIN pgws_profile_hash) \cup {key}
    /\ \A j \in DOMAIN pgws_profile_hash :
          pgws_profile_hash'[j] = pgws_profile_hash[j]
EvictionStep ==
    /\ pc = "MakeRoom"
    /\ key \notin DOMAIN pgws_profile_hash
    /\ TableSize(pgws_profile_hash) >= pgwsMaxProfileEntries

\* C17: the observation of a key that is in the table, full or not, adds
\* 1 to its counter and USAGE_INCREASE to its usage and changes nothing
\* else in the table; a new key that finds the table below
\* pgwsMaxProfileEntries is entered without any entry being removed or
\* decayed; entries are removed and decayed only for a new key that finds
\* the table at or above pgwsMaxProfileEntries.
C17_EvictionOnlyForNewKeyAtCapacity ==
    [][/\ pgws_profile_hash' # pgws_profile_hash =>
             \/ \E k \in DOMAIN pgws_profile_hash : FoundStep(k)
             \/ EnterStep
             \/ EvictionStep
       /\ \A k \in DOMAIN pgws_profile_hash :
             k \in DOMAIN observed /\ observed'[k] # observed[k] => FoundStep(k)
       /\ pc = "MakeRoom" /\ pc' # pc
             /\ TableSize(pgws_profile_hash) < pgwsMaxProfileEntries
             => EnterStep]_vars

\* C17 witness: a full table of two entries, each found once since it
\* was entered, none decayed.
C17_Witness ==
    /\ pgwsMaxProfileEntries = 2
    /\ TableSize(pgws_profile_hash) = 2
    /\ \A k \in DOMAIN pgws_profile_hash :
          /\ pgws_profile_hash[k].counter = 2
          /\ pgws_profile_hash[k].usage = UsageIncrease(UsageInit)
          /\ observed[k] = 2

\* C18: a step of a pass that does not write the profile leaves the
\* profile table, profile_ts and the profile lock alone; a step of a pass
\* that does not write the history leaves the ring, history_ts and the
\* history lock alone; a lock is held only by a pass that writes its
\* structure, and no pass is made with both flags false.
C18_OneStreamOnly ==
    /\ [][/\ ~write_profile =>
                UNCHANGED <<pgws_profile_hash, observed, profile_ts,
                            pgws_profile_lock>>
          /\ ~write_history =>
                UNCHANGED <<pgws_history_ring, written, history_ts,
                            pgws_history_lock>>]_vars
    /\ [](/\ pgws_profile_lock.exclusive => write_profile
          /\ pgws_history_lock.exclusive => write_history
          /\ InPass => write_history \/ write_profile)

\* C18 witness: both streams are enabled and both have sampled before; a
\* pass that writes the history only has written an item and has ended,
\* the profile table and profile_ts being those of the last profile pass.
C18_Witness ==
    /\ pc = "ResetTs"
    /\ write_history
    /\ ~write_profile
    /\ pgwsProfilePeriod # 0
    /\ ItemsWritten >= 2
    /\ written[ItemsWritten].ts = now
    /\ TableSize(pgws_profile_hash) >= 1
    /\ profile_ts > history_ts
    /\ profile_ts < now

\* the smallest of the periods that are not 0
SmallestPeriod ==
    IF pgwsHistoryPeriod = 0 THEN pgwsProfilePeriod
    ELSE IF pgwsProfilePeriod = 0 THEN pgwsHistoryPeriod
    ELSE Min(pgwsHistoryPeriod, pgwsProfilePeriod)
\* the elapsed time d of a stream of period p is below p, so that its
\* cast to int is exact and the subtraction of line 325 does not overflow
ExactRemaining(p, d) ==
    /\ d.hi = 0
    /\ d.lo < p
    /\ IntCast(d) = d.lo
    /\ ~IntSubOverflows(p, IntCast(d))

\* C19: when the sampler enters WaitLatch with a period that is not 0,
\* whatever the elapsed times were when the clock was read, also beyond
\* INT_MAX milliseconds, the timeout is at least 1 and at most the
\* smallest period that is not 0; for every enabled stream the elapsed
\* time that is cast to int is below the period.
C19_TimeoutInRange ==
    pc = "Wait" /\ WaitHasTimeout =>
       /\ actual_timeout >= 1
       /\ actual_timeout <= SmallestPeriod
       /\ pgwsHistoryPeriod # 0 => ExactRemaining(pgwsHistoryPeriod, history_diff)
       /\ pgwsProfilePeriod # 0 => ExactRemaining(pgwsProfilePeriod, profile_diff)

\* C19 witness: the history stream, of period 400, has sampled; the
\* profile stream is disabled and its elapsed time is 2^31 ms, whose cast
\* to int is INT_MIN; the timeout is 400.
C19_Witness ==
    /\ pc = "Wait"
    /\ pgwsHistoryPeriod = 400
    /\ pgwsProfilePeriod = 0
    /\ profile_diff.hi = 1
    /\ IntCast(profile_diff) = INT_MIN
    /\ ItemsWritten >= 1
    /\ actual_timeout = 400

\* the item that the step has appended to the items written
LastWritten == written'[Len(written')]
\* a slot of the ring that has never been written, or an item with pid
\* and wait event not 0
GoodItem(item) ==
    \/ item = ZeroItem
    \/ item.pid # 0 /\ item.wait_event_info # 0

\* C20: with workers that show any pid and any wait event at any moment,
\* every item ever written and every item of the history ring has a pid
\* and a wait event that are not 0; every key of the profile table, every
\* key ever counted and the key for which room is made have a wait event
\* that is not 0, and a pid that is not 0 when pgwsWhetherProfilePid is
\* set; the item that a step stores is made of a pid and of a wait event
\* that the slot showed.
C20_NoZeroRecorded ==
    /\ [](\A j \in 1 .. Len(written) : GoodItem(written[j]) /\ written[j] # ZeroItem)
    /\ [](\A j \in DOMAIN pgws_history_ring.items :
             GoodItem(pgws_history_ring.items[j]))
    /\ [](\A k \in (DOMAIN pgws_profile_hash) \cup (DOMAIN observed) :
             /\ k.wait_event_info # 0
             /\ pgwsWhetherProfilePid => k.pid # 0)
    /\ [](pc = "MakeRoom" =>
             /\ key.wait_event_info # 0
             /\ pgwsWhetherProfilePid => key.pid # 0)
    /\ [][pc = "Slot" /\ written' # written =>
             /\ \E p \in procs[slot] : p.pid = LastWritten.pid
             /\ \E p \in procs[slot] :
                   p.wait_event_info = LastWritten.wait_event_info
             /\ pgws_history_ring'.items[pgws_history_ring.index
                                            % pgwsHistoryBufferSize]
                   = LastWritten]_vars

\* C20 witness: a pass for both streams has gone over all slots, each of
\* which may show pid 0 or wait event 0 at any moment; one slot has been
\* skipped and another has been sampled into the ring and the table.
C20_Witness ==
    /\ pc = "Slot"
    /\ slot = NumProcs
    /\ write_history
    /\ write_profile
    /\ \A i \in Slots : procs[i] = AnyProc
    /\ ItemsWritten = 1
    /\ GoodItem(written[1])
    /\ TableSize(pgws_profile_hash) = 1
====
